---- MODULE Spec2Model ----
(***************************************************************************)
(* sub2port: the routing table (hosts, containers), the request handler    *)
(* (proxy) and the docker event consumer (watchEvents / eventLoop /        *)
(* addRoutes / removeRoutes) of unnamed/part_000, as a state machine.      *)
(*                                                                         *)
(* Go strings are sequences of one-character strings, so that Split,       *)
(* TrimSpace, TrimPrefix and SplitHostPort are computed, not assumed.      *)
(***************************************************************************)
EXTENDS Integers, Sequences, FiniteSets, TLC

\* ------------------------------------------------------------- bounds
\* Events decoded from the stream and requests accepted by the listener,
\* together, over the whole run.
MaxOps == 3
\* Containers returned by the initial listing.
MaxListed == 2
\* Width in bits of the model's cursor (uint64 in the code).
CounterBits == 4

CounterMod == 2 ^ CounterBits
\* Backends of the one hostname of the table the wraparound runs start from.
MaxBackends == 3

\* ------------------------------------------------------------- strings
RECURSIVE IndexOf(_, _, _)
\* Position of the first ch in s at or after position i, 0 if there is none.
IndexOf(s, ch, i) ==
    IF i > Len(s) THEN 0
    ELSE IF s[i] = ch THEN i
    ELSE IndexOf(s, ch, i + 1)

RECURSIVE LastIndexOf(_, _, _)
\* Position of the last ch in s at or before position i, 0 if there is none.
LastIndexOf(s, ch, i) ==
    IF i < 1 THEN 0
    ELSE IF s[i] = ch THEN i
    ELSE LastIndexOf(s, ch, i - 1)

RECURSIVE Split(_, _)
\* strings.Split(s, sep) for a one-character sep: never empty, Split("") = [""].
Split(s, sep) ==
    LET i == IndexOf(s, sep, 1)
    IN  IF i = 0 THEN << s >>
        ELSE << SubSeq(s, 1, i - 1) >> \o Split(SubSeq(s, i + 1, Len(s)), sep)

RECURSIVE TrimLeft(_)
TrimLeft(s) ==
    IF s # << >> /\ Head(s) = " " THEN TrimLeft(Tail(s)) ELSE s

RECURSIVE TrimRight(_)
TrimRight(s) ==
    IF s # << >> /\ s[Len(s)] = " " THEN TrimRight(SubSeq(s, 1, Len(s) - 1)) ELSE s

\* strings.TrimSpace
TrimSpace(s) == TrimRight(TrimLeft(s))

\* strings.TrimPrefix(s, "/")
TrimSlash(s) == IF s # << >> /\ Head(s) = "/" THEN Tail(s) ELSE s

\* net.SplitHostPort on an entry without brackets: the last colon separates
\* host and port; no colon ("missing port") and a colon left in the host
\* ("too many colons") are errors.
SplitHostPort(entry) ==
    LET i == LastIndexOf(entry, ":", Len(entry))
    IN  IF i = 0 THEN [err |-> TRUE, host |-> << >>, port |-> << >>]
        ELSE IF IndexOf(SubSeq(entry, 1, i - 1), ":", 1) # 0
             THEN [err |-> TRUE, host |-> << >>, port |-> << >>]
        ELSE [err |-> FALSE,
              host |-> SubSeq(entry, 1, i - 1),
              port |-> SubSeq(entry, i + 1, Len(entry))]

\* ------------------------------------------------------------- the docker daemon
\* The network segment detectNetwork resolved.
networkName == "p80"

ContainerIDs == {"c1", "c2", "c3", "c4"}

P80   == << "8", "0" >>
P8080 == << "8", "0", "8", "0" >>
P9090 == << "9", "0", "9", "0" >>
P9001 == << "9", "0", "0", "1" >>
Tcp   == << "/", "t", "c", "p" >>

\* What GET /containers/<id>/json answers for each container: Name, Config.Env
\* (key, value), Config.ExposedPorts (a map: its keys) and the container's
\* address on the segment when it is attached.
\*   c1  SUB2PORT="a, b:9001"  exposes 8080/tcp
\*   c2  SUB2PORT="a"          exposes nothing
\*   c3  SUB2PORT="b"          exposes 8080/tcp and 9090/tcp
\*   c4  no SUB2PORT; its identifier is shorter than the 12 characters
\*       addRoutes logs (the daemon's own identifiers have 64)
Daemon(c) ==
    CASE c = "c1" ->
           [Name |-> << "/", "n", "1" >>,
            Env |-> << << "PATH", << "/" >> >>,
                       << "SUB2PORT", << "a", ",", " ", "b", ":" >> \o P9001 >> >>,
            ExposedPorts |-> { P8080 \o Tcp },
            IPAddress |-> "10.0.0.1"]
      [] c = "c2" ->
           [Name |-> << "/", "n", "2" >>,
            Env |-> << << "SUB2PORT", << "a" >> >> >>,
            ExposedPorts |-> { },
            IPAddress |-> "10.0.0.2"]
      [] c = "c3" ->
           [Name |-> << "/", "n", "3" >>,
            Env |-> << << "SUB2PORT", << "b" >> >> >>,
            ExposedPorts |-> { P8080 \o Tcp, P9090 \o Tcp },
            IPAddress |-> "10.0.0.3"]
      [] OTHER ->
           [Name |-> << "/", "n", "4" >>,
            Env |-> << << "PATH", << "/" >> >> >>,
            ExposedPorts |-> { P8080 \o Tcp },
            IPAddress |-> "10.0.0.4"]

\* len(containerID)
IdLen(c) == IF c = "c4" THEN 3 ELSE 64

\* The identifier prefix addRoutes logs on a failed inspect: containerID[:12].
LogIdLen == 12

\* The networks this process' own container can be attached to, as the
\* inspect of detectNetwork reports them.
SelfNetworks == { {"bridge"}, {"bridge", networkName}, {networkName} }

\* The outcomes of one inspect call: the request fails, or the daemon answers
\* with the container's record, whose NetworkSettings.Networks holds the
\* segment with an address, holds it with an empty address, or does not hold it.
InspectOutcomes == {"error", "attached", "noaddress", "nonetwork"}

Networks(c, outcome) ==
    CASE outcome = "attached"  -> [n \in {networkName} |-> Daemon(c).IPAddress]
      [] outcome = "noaddress" -> [n \in {networkName} |-> ""]
      [] OTHER                 -> [n \in {"bridge"} |-> Daemon(c).IPAddress]

\* Sequences without repetition of at most n container identifiers: what the
\* initial listing can return.
Listings(n) ==
    UNION { { l \in [1..k -> ContainerIDs] :
                \A i, j \in 1..k : i # j => l[i] # l[j] } : k \in 0..n }

\* The events the daemon can send under the filter of eventsQuery: network
\* connect / disconnect (of the segment, or of another network) and container
\* start.
Events ==
    [Type : {"network"}, Action : {"connect", "disconnect"},
     name : {networkName}, container : ContainerIDs]
    \cup
    [Type : {"network"}, Action : {"connect", "disconnect"},
     name : {"bridge"}, container : {"c1"}]
    \cup
    [Type : {"container"}, Action : {"start"},
     name : {""}, container : ContainerIDs]

\* The Host headers of the requests: a name containers declare, with a port
\* suffix, and a name nobody declares.
RequestHosts ==
    { << "a", ":" >> \o P80, << "z" >> }

Handlers == {"h1", "h2"}

\* ------------------------------------------------------------- addRoutes, removeRoutes
RECURSIVE RouteConfig(_)
\* The value of the first SUB2PORT= variable of the environment, "" if none.
RouteConfig(env) ==
    IF env = << >> THEN << >>
    ELSE IF Head(env)[1] = "SUB2PORT" THEN Head(env)[2]
    ELSE RouteConfig(Tail(env))

\* The values the loop over the ExposedPorts map can leave in defaultPort: the
\* port of whichever key the map iteration yields first, "80" for an empty map.
DefaultPorts(exposed) ==
    IF exposed = { } THEN { P80 }
    ELSE { Split(p, "/")[1] : p \in exposed }

NewEntry == [backends |-> << >>, counter |-> 0]

RECURSIVE AddEntries(_, _, _, _)
\* The loop of addRoutes over the entries of the configuration: the hosts map
\* and the bindings it leaves. ar holds name, ip and defaultPort.
AddEntries(es, H, B, ar) ==
    IF es = << >> THEN [hosts |-> H, bindings |-> B]
    ELSE
      LET entry  == TrimSpace(Head(es))
          shp    == SplitHostPort(entry)
          domain == IF shp.err THEN entry ELSE shp.host
          port   == IF shp.err THEN ar.defaultPort ELSE shp.port
          old    == IF domain \in DOMAIN H THEN H[domain] ELSE NewEntry
          new    == [old EXCEPT !.backends =
                       Append(@, [Name |-> ar.name, Host |-> ar.ip, Port |-> port])]
          H2     == [h \in DOMAIN H \cup {domain} |-> IF h = domain THEN new ELSE H[h]]
      IN  IF entry = << >> THEN AddEntries(Tail(es), H, B, ar)
          ELSE AddEntries(Tail(es), H2,
                          Append(B, [Domain |-> domain, Name |-> ar.name]), ar)

RECURSIVE AddLogBefore(_, _, _)
\* Lines that count the backends before the append instead of after it.
AddLogBefore(es, H, ar) ==
    IF es = << >> THEN << >>
    ELSE
      LET entry == TrimSpace(Head(es))
          r     == AddEntries(<< Head(es) >>, H, << >>, ar)
          d     == r.bindings[1].Domain
      IN  IF entry = << >> THEN AddLogBefore(Tail(es), H, ar)
          ELSE << [sign |-> "+", host |-> d,
                   n |-> Len(r.hosts[d].backends) - 1, name |-> ar.name] >>
               \o AddLogBefore(Tail(es), r.hosts, ar)

RECURSIVE AddLog(_, _, _)
\* The lines the loop of addRoutes logs, one for each entry it adds:
\* log.Printf("+ %s (%d) -> %s:%s", domain, len(entry.backends), name, port)
\* after the append.
AddLog(es, H, ar) ==
    IF es = << >> THEN << >>
    ELSE
      LET entry == TrimSpace(Head(es))
          r     == AddEntries(<< Head(es) >>, H, << >>, ar)
          d     == r.bindings[1].Domain
      IN  IF entry = << >> THEN AddLog(Tail(es), H, ar)
          ELSE << [sign |-> "+", host |-> d,
                   n |-> Len(r.hosts[d].backends), name |-> ar.name] >>
               \o AddLog(Tail(es), r.hosts, ar)

RECURSIVE FirstNamed(_, _, _)
\* Position of the first backend at or after i whose Name is name, 0 if none.
FirstNamed(backends, name, i) ==
    IF i > Len(backends) THEN 0
    ELSE IF backends[i].Name = name THEN i
    ELSE FirstNamed(backends, name, i + 1)

RemoveAt(s, i) == SubSeq(s, 1, i - 1) \o SubSeq(s, i + 1, Len(s))

RECURSIVE RemoveBindingsKeepsEmpty(_, _)
\* A removal loop that leaves an entry in place when its last backend goes.
RemoveBindingsKeepsEmpty(bs, H) ==
    IF bs = << >> THEN H
    ELSE
      LET b == Head(bs)
      IN  IF b.Domain \notin DOMAIN H THEN RemoveBindingsKeepsEmpty(Tail(bs), H)
          ELSE
            LET i  == FirstNamed(H[b.Domain].backends, b.Name, 1)
                nb == IF i = 0 THEN H[b.Domain].backends
                      ELSE RemoveAt(H[b.Domain].backends, i)
            IN  RemoveBindingsKeepsEmpty(Tail(bs),
                                         [H EXCEPT ![b.Domain].backends = nb])

RECURSIVE RemoveBindings(_, _)
\* The loop of removeRoutes over the bindings of the container: the hosts map
\* it leaves.
RemoveBindings(bs, H) ==
    IF bs = << >> THEN H
    ELSE
      LET b == Head(bs)
      IN  IF b.Domain \notin DOMAIN H THEN RemoveBindings(Tail(bs), H)
          ELSE
            LET i  == FirstNamed(H[b.Domain].backends, b.Name, 1)
                nb == IF i = 0 THEN H[b.Domain].backends
                      ELSE RemoveAt(H[b.Domain].backends, i)
            IN  IF nb = << >>
                THEN RemoveBindings(Tail(bs),
                                    [h \in DOMAIN H \ {b.Domain} |-> H[h]])
                ELSE RemoveBindings(Tail(bs),
                                    [H EXCEPT ![b.Domain].backends = nb])

RECURSIVE RemoveLog(_, _)
\* The lines the loop of removeRoutes logs, one for each backend it removes:
\* log.Printf("- %s (%d) -> %s:%s", binding.Domain, len(entry.backends)-1,
\* route.Name, route.Port) before the removal.
RemoveLog(bs, H) ==
    IF bs = << >> THEN << >>
    ELSE
      LET b == Head(bs)
          i == IF b.Domain \in DOMAIN H
               THEN FirstNamed(H[b.Domain].backends, b.Name, 1) ELSE 0
      IN  IF i = 0 THEN RemoveLog(Tail(bs), RemoveBindings(<< b >>, H))
          ELSE << [sign |-> "-", host |-> b.Domain,
                   n |-> Len(H[b.Domain].backends) - 1, name |-> b.Name] >>
               \o RemoveLog(Tail(bs), RemoveBindings(<< b >>, H))

\* ------------------------------------------------------------- state
VARIABLES
    hosts,       \* table.hosts: hostname -> [backends, counter]
    containers,  \* table.containers: container id -> bindings (nil is << >>)
    mu,          \* table's RWMutex: the writer holding it and the readers
    epc,         \* where main and then the event consumer (watchEvents) are
    elist,       \* the containers of the initial listing still to be seeded
    ecid,        \* the container the consumer is working on
    ear,         \* addRoutes' locals between the inspect and the table update
    nevents,     \* events decoded so far
    hpc,         \* where each request handler (proxy) is
    hloc,        \* each handler's locals: host, the counter it read, idx, target
    nrequests,   \* requests accepted so far
    sel,         \* history: per hostname, the selections made since the entry's
                 \* backends last changed (the counter read, the index, the
                 \* backend, whether another handler was waiting for the lock
                 \* with the same host), and the counter at that change
    elog         \* the lines the latest addRoutes or removeRoutes logged

vars == << hosts, containers, mu, epc, elist, ecid, ear, nevents,
           hpc, hloc, nrequests, sel, elog >>

EmptyMap == [x \in { } |-> << >>]
NoAr  == [resp |-> "", config |-> << >>, name |-> << >>, ip |-> "",
          defaultPort |-> << >>]
NoLoc == [host |-> << >>, read |-> 0, idx |-> 0, target |-> << >>]
Free  == [w |-> "none", r |-> { }]

Init ==
    /\ hosts = EmptyMap
    /\ containers = EmptyMap
    /\ mu = Free
    /\ epc = "detect"
    /\ elist = << >>
    /\ ecid = ""
    /\ ear = NoAr
    /\ nevents = 0
    /\ hpc = [p \in Handlers |-> "idle"]
    /\ hloc = [p \in Handlers |-> NoLoc]
    /\ nrequests = 0
    /\ sel = EmptyMap
    /\ elog = << >>

\* ------------------------------------------------------------- the lock
\* sync.RWMutex: Lock waits for the writer and the readers to leave, RLock for
\* the writer.
CanLock  == mu.w = "none" /\ mu.r = { }
CanRLock == mu.w = "none"

\* The history kept for table H2 reached from hosts: an entry whose backends
\* are as before keeps its selections, any other starts afresh at its counter.
SelAfter(H2) ==
    [h \in DOMAIN H2 |->
        IF h \in DOMAIN hosts /\ hosts[h].backends = H2[h].backends
        THEN sel[h]
        ELSE [base |-> H2[h].counter, log |-> << >>]]

\* ------------------------------------------------------------- main
\* detectNetwork: reading /etc/hostname or inspecting this container fails,
\* or the inspect answers with its networks; without a network other than
\* bridge, host and none main ends in log.Fatalf, else it starts watchEvents
\* and the listener.
DetectNetwork ==
    /\ epc = "detect"
    /\ \E o \in [err : {TRUE}, nets : { { } }]
                 \cup [err : {FALSE}, nets : SelfNetworks] :
          LET custom == o.nets \ {"bridge", "host", "none"}
          IN  IF o.err \/ custom = { }
              THEN epc' = "fatal"
              ELSE epc' = "list"
    /\ UNCHANGED << hosts, containers, mu, elist, ecid, ear, nevents, hpc,
                    hloc, nrequests, sel, elog >>

\* The process runs: main got past detectNetwork and no goroutine panicked.
Running == epc \notin {"detect", "fatal", "crashed"}

\* ------------------------------------------------------------- proxy
SelectIndex(entry) == entry.counter % Len(entry.backends)

\* entry.counter++ left out.
NextCounterStuck(c) == c

NextCounter(c) == (c + 1) % CounterMod

\* The listener accepts a request and starts a handler for it.
Request(p) ==
    /\ Running
    /\ hpc[p] = "idle"
    /\ nevents + nrequests < MaxOps
    /\ \E rh \in RequestHosts :
          hloc' = [hloc EXCEPT ![p] = [NoLoc EXCEPT !.host = Split(rh, ":")[1]]]
    /\ hpc' = [hpc EXCEPT ![p] = "lock"]
    /\ nrequests' = nrequests + 1
    /\ UNCHANGED << hosts, containers, mu, epc, elist, ecid, ear, nevents, sel, elog >>

\* proxy going on without waiting for the lock.
ProxyLockRacy(p) ==
    /\ Running
    /\ hpc[p] = "lock"
    /\ mu' = [mu EXCEPT !.w = p]
    /\ hpc' = [hpc EXCEPT ![p] = "look"]
    /\ UNCHANGED << hosts, containers, epc, elist, ecid, ear, nevents,
                    hloc, nrequests, sel, elog >>

\* table.Lock()
ProxyLock(p) ==
    /\ Running
    /\ hpc[p] = "lock"
    /\ CanLock
    /\ mu' = [mu EXCEPT !.w = p]
    /\ hpc' = [hpc EXCEPT ![p] = "look"]
    /\ UNCHANGED << hosts, containers, epc, elist, ecid, ear, nevents,
                    hloc, nrequests, sel, elog >>

\* proxy's miss returning without table.Unlock().
ProxyLookupKeepsLock(p) ==
    /\ Running
    /\ hpc[p] = "look"
    /\ IF hloc[p].host \notin DOMAIN hosts
       THEN /\ hpc' = [hpc EXCEPT ![p] = "badgateway"]
            /\ UNCHANGED << mu, hloc >>
       ELSE /\ hloc' = [hloc EXCEPT ![p].read = hosts[hloc[p].host].counter,
                                    ![p].idx = hosts[hloc[p].host].counter
                                               % Len(hosts[hloc[p].host].backends)]
            /\ hpc' = [hpc EXCEPT ![p] = "incr"]
            /\ UNCHANGED mu
    /\ UNCHANGED << hosts, containers, epc, elist, ecid, ear, nevents,
                    nrequests, sel, elog >>

\* entry := table.hosts[host]; on nil Unlock and go answer 502; else
\* idx := entry.counter % len(entry.backends). An entry without backends makes
\* the modulo panic with the lock held.
ProxyLookup(p) ==
    /\ Running
    /\ hpc[p] = "look"
    /\ IF hloc[p].host \notin DOMAIN hosts
       THEN /\ mu' = [mu EXCEPT !.w = "none"]
            /\ hpc' = [hpc EXCEPT ![p] = "badgateway"]
            /\ UNCHANGED hloc
       ELSE IF hosts[hloc[p].host].backends = << >>
       THEN /\ hpc' = [hpc EXCEPT ![p] = "panic"]
            /\ UNCHANGED << mu, hloc >>
       ELSE /\ hloc' = [hloc EXCEPT ![p].read = hosts[hloc[p].host].counter,
                                    ![p].idx = SelectIndex(hosts[hloc[p].host])]
            /\ hpc' = [hpc EXCEPT ![p] = "incr"]
            /\ UNCHANGED mu
    /\ UNCHANGED << hosts, containers, epc, elist, ecid, ear, nevents,
                    nrequests, sel, elog >>

\* A selection that advances the cursor of every entry of the table.
ProxySelectAdvancesAll(p) ==
    /\ Running
    /\ hpc[p] = "incr"
    /\ LET h == hloc[p].host
       IN  IF h \notin DOMAIN hosts \/ hloc[p].idx >= Len(hosts[h].backends)
           THEN /\ hpc' = [hpc EXCEPT ![p] = "panic"]
                /\ UNCHANGED << hosts, hloc, mu >>
           ELSE LET backend == hosts[h].backends[hloc[p].idx + 1]
                IN  /\ hosts' = [g \in DOMAIN hosts |->
                                   [hosts[g] EXCEPT !.counter = NextCounter(@)]]
                    /\ hloc' = [hloc EXCEPT ![p].target =
                                  << backend.Host, backend.Port >>]
                    /\ mu' = [mu EXCEPT !.w = "none"]
                    /\ hpc' = [hpc EXCEPT ![p] = "forward"]
    /\ UNCHANGED << containers, epc, elist, ecid, ear, nevents, nrequests,
                    sel, elog >>

\* entry.counter++; backend := entry.backends[idx]; table.Unlock()
\* (An index past the end of backends panics with the lock held; the lock
\* keeps the entry as it was read, so that branch is never taken.)
ProxySelect(p) ==
    /\ Running
    /\ hpc[p] = "incr"
    /\ LET h == hloc[p].host
       IN  IF h \notin DOMAIN hosts \/ hloc[p].idx >= Len(hosts[h].backends)
           THEN /\ hpc' = [hpc EXCEPT ![p] = "panic"]
                /\ UNCHANGED << hosts, hloc, sel, mu >>
           ELSE LET backend == hosts[h].backends[hloc[p].idx + 1]
                IN  /\ hosts' = [hosts EXCEPT ![h].counter = NextCounter(@)]
                    /\ hloc' = [hloc EXCEPT ![p].target =
                                  << backend.Host, backend.Port >>]
                    /\ sel' = [sel EXCEPT ![h].log =
                                 Append(@, [read |-> hloc[p].read,
                                            idx |-> hloc[p].idx,
                                            backend |-> backend,
                                            contended |-> \E q \in Handlers :
                                                /\ hpc[q] = "lock"
                                                /\ hloc[q].host = h])]
                    /\ mu' = [mu EXCEPT !.w = "none"]
                    /\ hpc' = [hpc EXCEPT ![p] = "forward"]
    /\ UNCHANGED << containers, epc, elist, ecid, ear, nevents, nrequests, elog >>

\* http.Error(writer, "no backend for ...", http.StatusBadGateway); return
ProxyBadGateway(p) ==
    /\ Running
    /\ hpc[p] = "badgateway"
    /\ hpc' = [hpc EXCEPT ![p] = "idle"]
    /\ hloc' = [hloc EXCEPT ![p] = NoLoc]
    /\ UNCHANGED << hosts, containers, mu, epc, elist, ecid, ear, nevents,
                    nrequests, sel, elog >>

\* httputil.NewSingleHostReverseProxy(target).ServeHTTP(writer, request)
ProxyForward(p) ==
    /\ Running
    /\ hpc[p] = "forward"
    /\ hpc' = [hpc EXCEPT ![p] = "idle"]
    /\ hloc' = [hloc EXCEPT ![p] = NoLoc]
    /\ UNCHANGED << hosts, containers, mu, epc, elist, ecid, ear, nevents,
                    nrequests, sel, elog >>

\* ------------------------------------------------------------- watchEvents
\* A scan that opens the stream after the first listed container.
ReturnSkipsRest ==
    IF elist # << >>
    THEN /\ elist' = << >>
         /\ epc' = "open"
         /\ ecid' = ""
    ELSE /\ epc' = "decode"
         /\ ecid' = ""
         /\ UNCHANGED elist

\* Where the consumer goes when addRoutes returns: to the next container of
\* the initial listing, to the first eventLoop after the last one, or back to
\* the decoder.
Return ==
    IF elist # << >>
    THEN /\ elist' = Tail(elist)
         /\ IF Tail(elist) = << >>
            THEN epc' = "open" /\ ecid' = ""
            ELSE epc' = "t_lock" /\ ecid' = Head(Tail(elist))
    ELSE /\ epc' = "decode"
         /\ ecid' = ""
         /\ UNCHANGED elist

\* dockerGet(networkQuery, &containers): the listing, or an error that leaves
\* containers empty.
ListContainers ==
    /\ epc = "list"
    /\ \E l \in Listings(MaxListed) :
          /\ elist' = l
          /\ IF l = << >>
             THEN epc' = "open" /\ ecid' = ""
             ELSE epc' = "t_lock" /\ ecid' = Head(l)
    /\ UNCHANGED << hosts, containers, mu, ear, nevents, hpc, hloc,
                    nrequests, sel, elog >>

\* table.Lock() before table.containers[id] = nil (initial scan and connect)
TrackLock ==
    /\ epc = "t_lock"
    /\ CanLock
    /\ mu' = [mu EXCEPT !.w = "events"]
    /\ epc' = "t_cs"
    /\ UNCHANGED << hosts, containers, elist, ecid, ear, nevents, hpc, hloc,
                    nrequests, sel, elog >>

\* The connect case unlocking without recording the container.
TrackForgets ==
    /\ epc = "t_cs"
    /\ containers' = IF elist # << >>
                     THEN [c \in DOMAIN containers \cup {ecid} |->
                             IF c = ecid THEN << >> ELSE containers[c]]
                     ELSE containers
    /\ mu' = [mu EXCEPT !.w = "none"]
    /\ IF elist # << >>
       THEN epc' = "inspect" /\ UNCHANGED ecid
       ELSE epc' = "decode" /\ ecid' = ""
    /\ UNCHANGED << hosts, elist, ear, nevents, hpc, hloc, nrequests, sel, elog >>

\* table.containers[id] = nil; table.Unlock(). The initial scan goes on to
\* addRoutes(id), the connect event to the next event.
Track ==
    /\ epc = "t_cs"
    /\ containers' = [c \in DOMAIN containers \cup {ecid} |->
                        IF c = ecid THEN << >> ELSE containers[c]]
    /\ mu' = [mu EXCEPT !.w = "none"]
    /\ IF elist # << >>
       THEN epc' = "inspect" /\ UNCHANGED ecid
       ELSE epc' = "decode" /\ ecid' = ""
    /\ UNCHANGED << hosts, elist, ear, nevents, hpc, hloc, nrequests, sel, elog >>

\* dockerClient.Get(eventsQuery) answers: the decoder starts.
OpenStream ==
    /\ epc = "open"
    /\ epc' = "decode"
    /\ UNCHANGED << hosts, containers, mu, elist, ecid, ear, nevents, hpc,
                    hloc, nrequests, sel, elog >>

\* dockerClient.Get(eventsQuery) fails: eventLoop returns the error.
OpenFail ==
    /\ epc = "open"
    /\ epc' = "backoff"
    /\ UNCHANGED << hosts, containers, mu, elist, ecid, ear, nevents, hpc,
                    hloc, nrequests, sel, elog >>

\* A decode failure that empties the table before the reconnect.
DecodeFailClears ==
    /\ epc = "decode"
    /\ epc' = "backoff"
    /\ hosts' = EmptyMap
    /\ containers' = EmptyMap
    /\ sel' = EmptyMap
    /\ UNCHANGED << mu, elist, ecid, ear, nevents, hpc, hloc, nrequests, elog >>

\* jsonDecoder.Decode fails (the stream broke, or held no JSON): eventLoop
\* closes the body and returns the error.
DecodeFail ==
    /\ epc = "decode"
    /\ epc' = "backoff"
    /\ UNCHANGED << hosts, containers, mu, elist, ecid, ear, nevents, hpc,
                    hloc, nrequests, sel, elog >>

\* A consumer that ends on a stream failure instead of calling eventLoop
\* again.
BackoffGivesUp ==
    /\ epc = "backoff"
    /\ epc' = "stopped"
    /\ UNCHANGED << hosts, containers, mu, elist, ecid, ear, nevents, hpc,
                    hloc, nrequests, sel, elog >>

\* log.Printf("events: ..."); time.Sleep(time.Second); the loop calls
\* eventLoop again.
Backoff ==
    /\ epc = "backoff"
    /\ epc' = "open"
    /\ UNCHANGED << hosts, containers, mu, elist, ecid, ear, nevents, hpc,
                    hloc, nrequests, sel, elog >>

\* jsonDecoder.Decode yields an event and the switch picks its case.
Decode ==
    /\ epc = "decode"
    /\ nevents + nrequests < MaxOps
    /\ nevents' = nevents + 1
    /\ \E e \in Events :
          IF e.Type = "network" /\ e.name = networkName
          THEN /\ ecid' = e.container
               /\ epc' = IF e.Action = "connect" THEN "t_lock" ELSE "r_lock"
          ELSE IF e.Type = "container"
          THEN /\ ecid' = e.container
               /\ epc' = "c_rlock"
          ELSE UNCHANGED << epc, ecid >>
    /\ UNCHANGED << hosts, containers, mu, elist, ear, hpc, hloc,
                    nrequests, sel, elog >>

\* table.RLock() of the container case
CheckRLock ==
    /\ epc = "c_rlock"
    /\ CanRLock
    /\ mu' = [mu EXCEPT !.r = @ \cup {"events"}]
    /\ epc' = "c_cs"
    /\ UNCHANGED << hosts, containers, elist, ecid, ear, nevents, hpc, hloc,
                    nrequests, sel, elog >>

\* A container case that calls addRoutes(id) whether the container index
\* holds the container or not.
CheckTrackedAlways ==
    /\ epc = "c_cs"
    /\ mu' = [mu EXCEPT !.r = @ \ {"events"}]
    /\ epc' = "inspect"
    /\ UNCHANGED << hosts, containers, elist, ecid, ear, nevents, hpc, hloc,
                    nrequests, sel, elog >>

\* _, ok := table.containers[id]; table.RUnlock(); continue unless ok, else
\* addRoutes(id)
CheckTracked ==
    /\ epc = "c_cs"
    /\ mu' = [mu EXCEPT !.r = @ \ {"events"}]
    /\ IF ecid \in DOMAIN containers
       THEN epc' = "inspect" /\ UNCHANGED ecid
       ELSE epc' = "decode" /\ ecid' = ""
    /\ UNCHANGED << hosts, containers, elist, ear, nevents, hpc, hloc,
                    nrequests, sel, elog >>

\* addRoutes' dockerGet("/containers/<id>/json", &container): the daemon's
\* answer, or an error.
Inspect ==
    /\ epc = "inspect"
    /\ \E o \in InspectOutcomes : ear' = [NoAr EXCEPT !.resp = o]
    /\ epc' = "resolve"
    /\ UNCHANGED << hosts, containers, mu, elist, ecid, nevents, hpc, hloc,
                    nrequests, sel, elog >>

\* An addRoutes that goes on to the table whatever the configuration and the
\* address are.
ResolveRoutesAnyway ==
    /\ epc = "resolve"
    /\ LET container == Daemon(ecid)
           nets      == Networks(ecid, ear.resp)
       IN  IF ear.resp = "error"
           THEN Return /\ ear' = NoAr
           ELSE /\ \E dp \in DefaultPorts(container.ExposedPorts) :
                      ear' = [resp |-> "",
                              config |-> RouteConfig(container.Env),
                              name |-> TrimSlash(container.Name),
                              ip |-> IF networkName \in DOMAIN nets
                                     THEN nets[networkName] ELSE "",
                              defaultPort |-> dp]
                /\ epc' = "a_lock"
                /\ UNCHANGED << elist, ecid >>
    /\ UNCHANGED << hosts, containers, mu, nevents, hpc, hloc, nrequests,
                    sel, elog >>

\* addRoutes from the answer to its table.Lock(): on an error it logs
\* containerID[:12], which panics for a shorter identifier, and returns;
\* else the configuration, the address on the segment, the name and the
\* default port, returning when there is no configuration or no address.
Resolve ==
    /\ epc = "resolve"
    /\ LET container == Daemon(ecid)
           config    == RouteConfig(container.Env)
           nets      == Networks(ecid, ear.resp)
       IN  IF ear.resp = "error"
           THEN IF IdLen(ecid) < LogIdLen
                THEN epc' = "crashed" /\ ear' = NoAr /\ UNCHANGED << elist, ecid >>
                ELSE Return /\ ear' = NoAr
           ELSE IF \/ config = << >>
                   \/ networkName \notin DOMAIN nets
                   \/ nets[networkName] = ""
           THEN Return /\ ear' = NoAr
           ELSE /\ \E dp \in DefaultPorts(container.ExposedPorts) :
                      ear' = [resp |-> "",
                              config |-> config,
                              name |-> TrimSlash(container.Name),
                              ip |-> nets[networkName],
                              defaultPort |-> dp]
                /\ epc' = "a_lock"
                /\ UNCHANGED << elist, ecid >>
    /\ UNCHANGED << hosts, containers, mu, nevents, hpc, hloc, nrequests, sel, elog >>

\* table.Lock() of addRoutes
AddLock ==
    /\ epc = "a_lock"
    /\ CanLock
    /\ mu' = [mu EXCEPT !.w = "events"]
    /\ epc' = "a_cs"
    /\ UNCHANGED << hosts, containers, elist, ecid, ear, nevents, hpc, hloc,
                    nrequests, sel, elog >>

\* addRoutes returning without table.Unlock().
AddRoutesKeepsLock ==
    /\ epc = "a_cs"
    /\ LET r == AddEntries(Split(ear.config, ","), hosts, << >>, ear)
       IN  /\ hosts' = r.hosts
           /\ containers' = [c \in DOMAIN containers \cup {ecid} |->
                               IF c = ecid THEN r.bindings ELSE containers[c]]
           /\ sel' = SelAfter(r.hosts)
    /\ elog' = AddLog(Split(ear.config, ","), hosts, ear)
    /\ ear' = NoAr
    /\ Return
    /\ UNCHANGED << mu, nevents, hpc, hloc, nrequests >>

\* The loop of addRoutes, table.containers[id] = bindings, table.Unlock().
AddRoutes ==
    /\ epc = "a_cs"
    /\ LET r == AddEntries(Split(ear.config, ","), hosts, << >>, ear)
       IN  /\ hosts' = r.hosts
           /\ containers' = [c \in DOMAIN containers \cup {ecid} |->
                               IF c = ecid THEN r.bindings ELSE containers[c]]
           /\ sel' = SelAfter(r.hosts)
    /\ elog' = AddLog(Split(ear.config, ","), hosts, ear)
    /\ mu' = [mu EXCEPT !.w = "none"]
    /\ ear' = NoAr
    /\ Return
    /\ UNCHANGED << nevents, hpc, hloc, nrequests >>

\* table.Lock() of removeRoutes
RemoveLock ==
    /\ epc = "r_lock"
    /\ CanLock
    /\ mu' = [mu EXCEPT !.w = "events"]
    /\ epc' = "r_cs"
    /\ UNCHANGED << hosts, containers, elist, ecid, ear, nevents, hpc, hloc,
                    nrequests, sel, elog >>

\* A removeRoutes that drops every backend carrying the container's name,
\* bindings or not.
RemoveRoutesByName ==
    /\ epc = "r_cs"
    /\ LET name == TrimSlash(Daemon(ecid).Name)
           rest == [h \in DOMAIN hosts |->
                      SelectSeq(hosts[h].backends, LAMBDA b : b.Name # name)]
           H2   == [h \in { g \in DOMAIN hosts : rest[g] # << >> } |->
                      [hosts[h] EXCEPT !.backends = rest[h]]]
       IN  /\ hosts' = H2
           /\ sel' = SelAfter(H2)
           /\ elog' = << >>
    /\ containers' = [c \in DOMAIN containers \ {ecid} |-> containers[c]]
    /\ mu' = [mu EXCEPT !.w = "none"]
    /\ epc' = "decode"
    /\ ecid' = ""
    /\ UNCHANGED << elist, ear, nevents, hpc, hloc, nrequests >>

\* The loop of removeRoutes, delete(table.containers, id), table.Unlock().
RemoveRoutes ==
    /\ epc = "r_cs"
    /\ LET bs == IF ecid \in DOMAIN containers THEN containers[ecid] ELSE << >>
           H2 == RemoveBindings(bs, hosts)
       IN  /\ hosts' = H2
           /\ sel' = SelAfter(H2)
           /\ elog' = RemoveLog(bs, hosts)
    /\ containers' = [c \in DOMAIN containers \ {ecid} |-> containers[c]]
    /\ mu' = [mu EXCEPT !.w = "none"]
    /\ epc' = "decode"
    /\ ecid' = ""
    /\ UNCHANGED << elist, ear, nevents, hpc, hloc, nrequests >>

\* ------------------------------------------------------------- specification
Next ==
    \/ DetectNetwork
    \/ ListContainers
    \/ TrackLock
    \/ Track
    \/ OpenStream
    \/ OpenFail
    \/ DecodeFail
    \/ Backoff
    \/ Decode
    \/ CheckRLock
    \/ CheckTracked
    \/ Inspect
    \/ Resolve
    \/ AddLock
    \/ AddRoutes
    \/ RemoveLock
    \/ RemoveRoutes
    \/ \E p \in Handlers :
          \/ Request(p)
          \/ ProxyLock(p)
          \/ ProxyLookup(p)
          \/ ProxySelect(p)
          \/ ProxyBadGateway(p)
          \/ ProxyForward(p)

Spec == Init /\ [][Next]_vars

\* The consumer's goroutine is scheduled: its sleep of one second ends and
\* the for loop of watchEvents calls eventLoop again.
LiveSpec == Spec /\ WF_vars(Backoff)

\* Every goroutine is scheduled: a handler and the consumer take the steps
\* they can take (weak fairness), and a goroutine waiting in Lock or RLock
\* gets the lock when it keeps being released (strong fairness: a waiter of
\* sync.RWMutex is not overtaken for ever). A process that ended takes no
\* step. AddRoutes can be taken exactly when epc = "a_cs" and leaves it, so
\* its weak fairness is written as the consumer not staying there for ever.
FairSpec ==
    /\ LiveSpec
    /\ \A p \in Handlers :
          /\ SF_vars(ProxyLock(p))
          /\ WF_vars(ProxyLookup(p) \/ ProxySelect(p))
          /\ WF_vars(ProxyBadGateway(p) \/ ProxyForward(p))
    /\ SF_vars(TrackLock \/ AddLock \/ RemoveLock \/ CheckRLock)
    /\ WF_vars(Track \/ RemoveRoutes \/ CheckTracked)
    /\ []<>(epc # "a_cs")

\* The table after addRoutes ran once for each of the first n containers with
\* the hostname a in their configuration, and the container index with it.
WrapIds == << "c1", "c2", "c3", "c4" >>

WrapHosts(n, c) ==
    [h \in { << "a" >> } |->
        [backends |-> [k \in 1..n |->
                          [Name |-> TrimSlash(Daemon(WrapIds[k]).Name),
                           Host |-> Daemon(WrapIds[k]).IPAddress,
                           Port |-> P80]],
         counter |-> c]]

WrapContainers(n) ==
    [id \in { WrapIds[k] : k \in 1..n } |->
        << [Domain |-> << "a" >>, Name |-> TrimSlash(Daemon(id).Name)] >>]

\* The program with the stream open and silent, one hostname of n backends
\* in the table and its cursor anywhere in the range of the counter.
WrapInit ==
    /\ \E n \in 2..MaxBackends, c \in 0..(CounterMod - 1) :
          /\ hosts = WrapHosts(n, c)
          /\ containers = WrapContainers(n)
          /\ sel = [h \in { << "a" >> } |-> [base |-> c, log |-> << >>]]
    /\ mu = Free
    /\ epc = "decode"
    /\ elist = << >>
    /\ ecid = ""
    /\ ear = NoAr
    /\ nevents = 0
    /\ hpc = [p \in Handlers |-> "idle"]
    /\ hloc = [p \in Handlers |-> NoLoc]
    /\ nrequests = 0
    /\ elog = << >>

\* Requests only: no event arrives, so nothing changes the backends.
WrapNext ==
    \E p \in Handlers :
        \/ Request(p)
        \/ ProxyLock(p)
        \/ ProxyLookup(p)
        \/ ProxySelect(p)
        \/ ProxyBadGateway(p)
        \/ ProxyForward(p)

WrapSpec == WrapInit /\ [][WrapNext]_vars

\* ------------------------------------------------------------- properties
\* What the containers of Daemon declare, written out: the name a backend of
\* container c carries and the hostnames of its SUB2PORT value.
NameOf(c) ==
    CASE c = "c1" -> << "n", "1" >>
      [] c = "c2" -> << "n", "2" >>
      [] c = "c3" -> << "n", "3" >>
      [] OTHER    -> << "n", "4" >>

DeclaredHosts(c) ==
    CASE c = "c1" -> { << "a" >>, << "b" >> }
      [] c = "c2" -> { << "a" >> }
      [] c = "c3" -> { << "b" >> }
      [] OTHER    -> { }

\* The positions of the backends of entry whose Name is name.
NamedAt(entry, name) ==
    { j \in 1..Len(entry.backends) : entry.backends[j].Name = name }

\* The backends of entry that do not carry name, in their order.
RECURSIVE Without(_, _)
Without(backends, name) ==
    IF backends = << >> THEN << >>
    ELSE IF Head(backends).Name = name THEN Without(Tail(backends), name)
    ELSE << Head(backends) >> \o Without(Tail(backends), name)

\* The consumer leaves a critical section of the kind pc in this step.
Leaves(pc) == epc = pc /\ epc' # pc

\* C1. Referential integrity: in every state, each binding (hostname, name) of
\* the container index has exactly one backend of that name in the host entry
\* of that hostname.
RefIntegrity ==
    \A c \in DOMAIN containers :
        \A i \in 1..Len(containers[c]) :
            LET b == containers[c][i]
            IN  /\ b.Domain \in DOMAIN hosts
                /\ Cardinality(NamedAt(hosts[b.Domain], b.Name)) = 1

\* C2. Round-robin: on an entry whose backends have not changed since its
\* cursor was zero, the i-th selection returns the backend at position
\* ((i - 1) mod N) + 1 of the N backends: each once in order, then the first
\* again.
RoundRobin ==
    \A h \in DOMAIN hosts :
        sel[h].base = 0 =>
            \A i \in 1..Len(sel[h].log) :
                sel[h].log[i].backend =
                    hosts[h].backends[((i - 1) % Len(hosts[h].backends)) + 1]

\* Three selections on an untouched entry of two different backends: the
\* second differs from the first, the third is the first again.
RoundRobinWitness ==
    \E h \in DOMAIN hosts :
        /\ sel[h].base = 0
        /\ Len(hosts[h].backends) = 2
        /\ hosts[h].backends[1] # hosts[h].backends[2]
        /\ Len(sel[h].log) = 3
        /\ sel[h].log[1].backend = hosts[h].backends[1]
        /\ sel[h].log[2].backend = hosts[h].backends[2]
        /\ sel[h].log[3].backend = hosts[h].backends[1]

\* C3. Atomic selection: among the selections made on an entry since its
\* backends last changed, whatever the interleaving of the handlers, no two
\* read the same cursor value, fewer than N apart no two pick the same
\* position when N > 1, and after k of them the cursor has advanced by k.
AtomicSelection ==
    \A h \in DOMAIN hosts :
        LET log == sel[h].log
            N   == Len(hosts[h].backends)
        IN  /\ hosts[h].counter = (sel[h].base + Len(log)) % CounterMod
            /\ \A i, j \in 1..Len(log) : i # j => log[i].read # log[j].read
            /\ N > 1 =>
                 \A i, j \in 1..Len(log) :
                     (i < j /\ j - i < N) => log[i].idx # log[j].idx

\* Two selections on an entry of several backends, the first made while
\* another handler was waiting for the lock with the same host.
AtomicSelectionWitness ==
    \E h \in DOMAIN hosts :
        /\ Len(hosts[h].backends) > 1
        /\ Len(sel[h].log) >= 2
        /\ sel[h].log[1].contended

\* C4. Idempotent add: addRoutes for a container that already has bindings
\* leaves every hostname with as many backends as before.
IdempotentAdd ==
    [][ (Leaves("a_cs") /\ ecid \in DOMAIN containers
            /\ containers[ecid] # << >>)
        => /\ DOMAIN hosts' = DOMAIN hosts
           /\ \A h \in DOMAIN hosts :
                 Len(hosts'[h].backends) = Len(hosts[h].backends) ]_vars

\* C5. Removal completeness: removeRoutes for container C deletes the entries
\* whose backends were all C's, leaves in the entries C shares the other
\* containers' backends in their order, and leaves the other entries alone.
RemovalComplete ==
    [][ Leaves("r_cs") =>
          LET bs    == IF ecid \in DOMAIN containers
                       THEN containers[ecid] ELSE << >>
              mine  == { bs[i].Domain : i \in 1..Len(bs) }
          IN  \A h \in DOMAIN hosts :
                 LET others == Without(hosts[h].backends, NameOf(ecid))
                 IN  IF h \notin mine
                     THEN h \in DOMAIN hosts' /\ hosts'[h] = hosts[h]
                     ELSE IF others = << >>
                     THEN h \notin DOMAIN hosts'
                     ELSE /\ h \in DOMAIN hosts'
                          /\ hosts'[h].backends = others ]_vars

\* C6. Disconnect removes everything: once removeRoutes has run for a
\* container that had bindings, no entry holds a backend of that container and
\* the container index does not hold the container.
DisconnectRemovesAll ==
    [][ (Leaves("r_cs") /\ ecid \in DOMAIN containers
            /\ containers[ecid] # << >>)
        => /\ ecid \notin DOMAIN containers'
           /\ \A h \in DOMAIN hosts' :
                 NamedAt(hosts'[h], NameOf(ecid)) = { } ]_vars

\* C7 as claimed. Connect makes a container routable: when the connect
\* event of an untracked container has been handled, the container is tracked
\* and every hostname it declares has a backend of it.
ConnectRoutes ==
    [][ (Leaves("t_cs") /\ elist = << >> /\ ecid \notin DOMAIN containers)
        => /\ ecid \in DOMAIN containers'
           /\ \A h \in DeclaredHosts(ecid) :
                 /\ h \in DOMAIN hosts'
                 /\ NamedAt(hosts'[h], NameOf(ecid)) # { } ]_vars

\* C7 as amended. Handling the connect event of an untracked container makes
\* it tracked with no bindings, fetches nothing (the consumer goes straight
\* back to the decoder) and leaves the hosts map as it was; the hostnames it
\* declares are registered when addRoutes runs for it on a later start event
\* (or ran for it in the initial scan).
ConnectOnlyTracks ==
    [][ /\ (Leaves("t_cs") /\ elist = << >> /\ ecid \notin DOMAIN containers)
           => /\ ecid \in DOMAIN containers'
              /\ containers'[ecid] = << >>
              /\ hosts' = hosts
              /\ epc' = "decode"
        /\ Leaves("a_cs")
           => \A h \in DeclaredHosts(ecid) :
                 /\ h \in DOMAIN hosts'
                 /\ NamedAt(hosts'[h], NameOf(ecid)) # { } ]_vars

\* The consumer is in the critical section of a connect event for c1, which
\* declares hostnames and is not tracked.
ConnectWitness ==
    /\ epc = "t_cs"
    /\ elist = << >>
    /\ ecid = "c1"
    /\ "c1" \notin DOMAIN containers
    /\ mu.w = "events"

\* C8. Unknown host: a lookup of a hostname without entry releases the lock,
\* goes on to answer 502 with no target chosen, and leaves hosts, cursors and
\* container index as they were; answering 502 ends the handler, nothing
\* forwarded, the table again unchanged; and no handler ever panics.
UnknownHost ==
    [][ \A p \in Handlers :
          /\ (hpc[p] = "look" /\ hpc'[p] # "look"
                /\ hloc[p].host \notin DOMAIN hosts)
             => /\ hpc'[p] = "badgateway"
                /\ hloc'[p].target = << >>
                /\ mu'.w = "none"
                /\ hosts' = hosts
                /\ containers' = containers
          /\ (hpc[p] = "badgateway" /\ hpc'[p] # "badgateway")
             => /\ hpc'[p] = "idle"
                /\ hosts' = hosts
                /\ containers' = containers
          /\ hpc'[p] # "panic" ]_vars

\* A handler answers 502 for z while the table routes other hostnames.
UnknownHostWitness ==
    \E p \in Handlers :
        /\ hpc[p] = "badgateway"
        /\ hloc[p].host = << "z" >>
        /\ << "a" >> \in DOMAIN hosts
        /\ mu.w = "none"

\* What the containers of Daemon should get for each hostname they declare:
\* the port of the entry, else the first exposed port, else 80.
ExpectedPort(h, name) ==
    CASE name = << "n", "1" >> /\ h = << "a" >> -> P8080
      [] name = << "n", "1" >> /\ h = << "b" >> -> P9001
      [] name = << "n", "2" >> /\ h = << "a" >> -> P80
      [] name = << "n", "3" >> /\ h = << "b" >> -> P8080
      [] OTHER -> << >>

\* C9. Port resolution: every backend carries the port its container's entry
\* for the hostname resolves to.
PortResolution ==
    \A h \in DOMAIN hosts :
        \A i \in 1..Len(hosts[h].backends) :
            hosts[h].backends[i].Port =
                ExpectedPort(h, hosts[h].backends[i].Name)

\* The backends of entry, cursor aside.
Structure(H) == [h \in DOMAIN H |-> H[h].backends]

\* C10. Stale serving: a step into, within or out of the backoff (the stream
\* failed to open, broke or held undecodable data; the sleep; the reopening)
\* leaves the container index and every entry's backends as they were, and
\* only a selection made meanwhile moves a cursor.
StaleServing ==
    [][ (epc = "backoff" \/ epc' = "backoff")
        => /\ containers' = containers
           /\ Structure(hosts') = Structure(hosts)
           /\ (epc' # epc => hosts' = hosts) ]_vars

\* During a backoff a handler is selecting on an entry of the table.
StaleServingWitness ==
    /\ epc = "backoff"
    /\ \E p \in Handlers :
          /\ hpc[p] = "incr"
          /\ hloc[p].host \in DOMAIN hosts
          /\ Len(hosts[hloc[p].host].backends) >= 2

\* C11. Stream recovery: whenever the stream failed (it did not open, broke
\* or held undecodable data) the consumer is in its backoff, from which the
\* only step it takes is to call eventLoop again, and it eventually does: a
\* stream failure neither ends nor crashes the consumer.
StreamRecovers ==
    /\ (epc = "backoff") ~> (epc = "open")
    /\ [][ epc = "backoff" => epc' \in {"backoff", "open"} ]_vars
    /\ [][ (epc \in {"open", "decode"} /\ (OpenFail \/ DecodeFail))
           => epc' = "backoff" ]_vars

\* The stream failed after an event was handled, with routes in the table.
StreamRecoversWitness ==
    /\ epc = "backoff"
    /\ nevents >= 1
    /\ DOMAIN hosts # { }

\* C12. Metadata-fetch errors are not fatal: when the inspect of addRoutes
\* fails, for a container identifier of any length, addRoutes returns with
\* the table and the container index as they were and the consumer goes on
\* with the next listed container or the next event; nothing panics.
InspectErrorNonFatal ==
    [][ (Leaves("resolve") /\ ear.resp = "error")
        => /\ hosts' = hosts
           /\ containers' = containers
           /\ epc' \in {"t_lock", "open", "decode"} ]_vars

\* C13. No empty host entry: in every state every entry of the hosts map has
\* at least one backend (addRoutes and removeRoutes each run as one critical
\* section, so the states between their steps are the states outside it), and
\* no selection finds an entry without backends.
NoEmptyEntry ==
    /\ \A h \in DOMAIN hosts : Len(hosts[h].backends) >= 1
    /\ \A p \in Handlers : hpc[p] # "panic"

\* removeRoutes is in its critical section for a container that holds the
\* only backend of one of its hostnames.
NoEmptyEntryWitness ==
    /\ epc = "r_cs"
    /\ ecid \in DOMAIN containers
    /\ \E i \in 1..Len(containers[ecid]) :
          /\ containers[ecid][i].Domain \in DOMAIN hosts
          /\ Len(hosts[containers[ecid][i].Domain].backends) = 1
          /\ hosts[containers[ecid][i].Domain].backends[1].Name
                = containers[ecid][i].Name

\* The tasks inside a critical section of the table: the consumer in
\* addRoutes, removeRoutes or the tracking assignment, a handler between its
\* Lock and its Unlock.
InCritical ==
    (IF epc \in {"t_cs", "a_cs", "r_cs"} THEN {"events"} ELSE { })
        \cup { p \in Handlers : hpc[p] \in {"look", "incr"} }

\* C14. Lock discipline: at most one task is inside a critical section of
\* the table and it is the writer of the lock, the consumer's read of the
\* container index excludes them all, and a task at a network call (the
\* self inspect, the listing, the inspect of addRoutes, the stream's open
\* and read, the backoff, the forwarding and the 502 answer) holds no lock.
LockDiscipline ==
    /\ Cardinality(InCritical) <= 1
    /\ \A t \in InCritical : mu.w = t /\ mu.r = { }
    /\ epc = "c_cs" => InCritical = { } /\ mu.r = {"events"}
    /\ epc \in {"detect", "list", "inspect", "resolve", "open", "decode",
                "backoff"}
          => mu.w # "events" /\ "events" \notin mu.r
    /\ \A p \in Handlers :
          hpc[p] \in {"idle", "lock", "forward", "badgateway"} => mu.w # p

\* A handler is selecting while the consumer waits in addRoutes for the lock
\* and the other handler waits for it too.
LockDisciplineWitness ==
    /\ epc = "a_lock"
    /\ \E p, q \in Handlers :
          /\ hpc[p] = "incr"
          /\ hpc[q] = "lock"

\* C15. Dispatcher frame: a step of the handler of a request for hostname h
\* leaves the container index (and with it the tracked set), the set of
\* hostnames, every entry's backends and the cursor of every other hostname
\* as they were; only the cursor of h may move.
SelectionFrame ==
    [][ \A p \in Handlers :
          hpc'[p] # hpc[p]
          => /\ containers' = containers
             /\ DOMAIN hosts' = DOMAIN hosts
             /\ Structure(hosts') = Structure(hosts)
             /\ \A h \in DOMAIN hosts :
                   h # hloc[p].host => hosts'[h] = hosts[h] ]_vars

\* A handler has selected on one hostname of a table that holds another
\* hostname, whose cursor is where it was set.
SelectionFrameWitness ==
    \E p \in Handlers :
        /\ hpc[p] = "forward"
        /\ hloc[p].host \in DOMAIN hosts
        /\ hosts[hloc[p].host].counter = 1
        /\ \E h \in DOMAIN hosts : h # hloc[p].host /\ hosts[h].counter = 0
        /\ DOMAIN containers # { }

\* C16. Startup ordering: until detectNetwork has answered (and for ever when
\* it failed) no listing is made, no request is accepted and the table is
\* empty; the stream is neither opened nor read while a listed container is
\* still to be seeded; and a container leaves the list of those only when
\* addRoutes returns for it, after it was recorded in the container index.
StartupOrder ==
    /\ [](epc \in {"detect", "fatal"}
            => /\ \A p \in Handlers : hpc[p] = "idle"
               /\ nrequests = 0 /\ nevents = 0
               /\ hosts = EmptyMap /\ containers = EmptyMap
               /\ elist = << >>)
    /\ [](elist # << >>
            => /\ epc \in {"t_lock", "t_cs", "inspect", "resolve", "a_lock",
                           "a_cs", "crashed"}
               /\ ecid = Head(elist)
               /\ nevents = 0)
    /\ [][ elist' # elist
           => \/ epc = "list" /\ elist = << >>
              \/ /\ epc \in {"resolve", "a_cs"}
                 /\ elist' = Tail(elist)
                 /\ Head(elist) \in DOMAIN containers'
                 /\ elist' = << >> <=> epc' = "open" ]_vars

\* The stream is about to be opened for the first time after a listing of two
\* containers that are both in the container index, with routes in the table.
StartupOrderWitness ==
    /\ epc = "open"
    /\ nevents = 0
    /\ elist = << >>
    /\ Cardinality(DOMAIN containers) = MaxListed
    /\ DOMAIN hosts # { }

\* The inspect answered for the container the consumer works on, and the
\* container declares no SUB2PORT value or has no address on the segment.
NonContributing ==
    /\ epc = "resolve"
    /\ ear.resp # "error"
    /\ \/ RouteConfig(Daemon(ecid).Env) = << >>
       \/ networkName \notin DOMAIN Networks(ecid, ear.resp)
       \/ Networks(ecid, ear.resp)[networkName] = ""

\* C17. Non-contributing containers: addRoutes for a container without a
\* SUB2PORT value, or without an address on the segment, returns with the
\* hosts map, the container index and the log as they were, and the consumer
\* goes on with the next listed container or the next event.
NonContributingFrame ==
    [][ (NonContributing /\ epc' # epc)
        => /\ hosts' = hosts
           /\ containers' = containers
           /\ elog' = elog
           /\ epc' \in {"t_lock", "open", "decode"} ]_vars

\* addRoutes got an answer without an address for a container that has
\* bindings in a table with routes.
NonContributingWitness ==
    /\ NonContributing
    /\ RouteConfig(Daemon(ecid).Env) # << >>
    /\ ecid \in DOMAIN containers
    /\ containers[ecid] # << >>
    /\ DOMAIN hosts # { }

\* removeRoutes is in its critical section for a container without bindings:
\* one the container index does not hold, or holds with nil.
Unrouted ==
    /\ epc = "r_cs"
    /\ ecid \notin DOMAIN containers \/ containers[ecid] = << >>

\* C18. Removing a container that was never routed changes no route:
\* removeRoutes for a container without bindings leaves every host entry
\* (its backends and its cursor) as it was, logs no removal, leaves the
\* bindings of the other containers alone and returns to the decoder.
UnroutedRemoval ==
    [][ (Unrouted /\ epc' # epc)
        => /\ hosts' = hosts
           /\ elog' = << >>
           /\ \A c \in DOMAIN containers \ {ecid} :
                 c \in DOMAIN containers' /\ containers'[c] = containers[c]
           /\ ecid \notin DOMAIN containers'
           /\ epc' = "decode" ]_vars

\* removeRoutes is about to run for a container the index holds with nil,
\* while the table still has a backend carrying that container's name.
UnroutedRemovalWitness ==
    /\ Unrouted
    /\ ecid \in DOMAIN containers
    /\ \E h \in DOMAIN hosts : NamedAt(hosts[h], NameOf(ecid)) # { }

\* The number of backends hostname h has in table H.
Backends(H, h) == IF h \in DOMAIN H THEN Len(H[h].backends) ELSE 0

\* The number of the first i lines of log that are about hostname h.
LinesFor(log, h, i) == Cardinality({ j \in 1..i : log[j].host = h })

\* C19. Log accuracy: addRoutes logs one "+" line for each backend it adds,
\* with the number of backends its hostname has right after that addition,
\* and removeRoutes one "-" line for each backend it removes, with the number
\* that remain right after that removal.
LogCounts ==
    [][ /\ Leaves("a_cs")
           => /\ \A i \in 1..Len(elog') :
                    /\ elog'[i].sign = "+"
                    /\ elog'[i].n = Backends(hosts, elog'[i].host)
                                      + LinesFor(elog', elog'[i].host, i)
              /\ \A h \in DOMAIN hosts' :
                    Backends(hosts', h)
                        = Backends(hosts, h) + LinesFor(elog', h, Len(elog'))
        /\ Leaves("r_cs")
           => /\ \A i \in 1..Len(elog') :
                    /\ elog'[i].sign = "-"
                    /\ elog'[i].n = Backends(hosts, elog'[i].host)
                                      - LinesFor(elog', elog'[i].host, i)
              /\ \A h \in DOMAIN hosts :
                    Backends(hosts', h)
                        = Backends(hosts, h) - LinesFor(elog', h, Len(elog'))
      ]_vars

\* Two containers were added to one hostname, the second logging 2 backends,
\* and removeRoutes is about to remove one of them.
LogCountsWitness ==
    /\ epc = "r_cs"
    /\ ecid \in DOMAIN containers
    /\ elog # << >>
    /\ elog[Len(elog)].sign = "+"
    /\ elog[Len(elog)].n = 2
    /\ \E i \in 1..Len(containers[ecid]) :
          /\ containers[ecid][i].Domain = elog[Len(elog)].host
          /\ Backends(hosts, containers[ecid][i].Domain) = 2

\* C20. Start of an untracked container: when the container of a start event
\* is not in the container index, the consumer goes back to the decoder
\* without an inspect, and the hosts map, the container index (and with it
\* the tracked set) and the log are as they were.
UntrackedStart ==
    [][ (epc = "c_cs" /\ ecid \notin DOMAIN containers /\ epc' # epc)
        => /\ epc' = "decode"
           /\ hosts' = hosts
           /\ containers' = containers
           /\ elog' = elog
           /\ ear' = ear ]_vars

\* The start event of a container that declares routes and is not in the
\* container index is being looked up, with routes in the table.
UntrackedStartWitness ==
    /\ epc = "c_cs"
    /\ ecid \notin DOMAIN containers
    /\ DeclaredHosts(ecid) # { }
    /\ DOMAIN hosts # { }

\* The bindings of the container index for hostname h and container name
\* name, as pairs of a container and a position in its bindings.
BindingsFor(h, name) ==
    { << c, j >> \in (DOMAIN containers) \X (1..8) :
         /\ j <= Len(containers[c])
         /\ containers[c][j].Domain = h
         /\ containers[c][j].Name = name }

\* C21. No orphan backends: in every state, each backend of each host entry
\* is accounted for by a binding of the same hostname and container name in
\* the container index, and a hostname has as many backends of a name as the
\* index has bindings for them.
NoOrphans ==
    \A h \in DOMAIN hosts :
        \A i \in 1..Len(hosts[h].backends) :
            LET name == hosts[h].backends[i].Name
            IN  Cardinality(NamedAt(hosts[h], name))
                    = Cardinality(BindingsFor(h, name))

\* C22. Connect on a routed container keeps its routes: the connect case for
\* a container that the container index holds with bindings leaves those
\* bindings and the backends of every host entry as they were.
ConnectKeepsRoutes ==
    [][ (/\ epc = "t_cs"
         /\ elist = << >>
         /\ ecid \in DOMAIN containers
         /\ containers[ecid] # << >>
         /\ epc' # epc)
        => /\ ecid \in DOMAIN containers'
           /\ containers'[ecid] = containers[ecid]
           /\ Structure(hosts') = Structure(hosts) ]_vars

\* C23. Cursor wraparound: on an entry of N >= 2 backends that no event
\* changes, whatever the cursor started at, two selections fewer than N apart
\* never return the same position (so two in a row differ and N in a row
\* return each backend once), the overflow of the counter included.
Wraparound ==
    \A h \in DOMAIN hosts :
        LET log == sel[h].log
            N   == Len(hosts[h].backends)
        IN  N >= 2 =>
               \A i, j \in 1..Len(log) :
                   (i < j /\ j - i < N) => log[i].idx # log[j].idx

\* C24. The lock is always released: under fair scheduling every handler that
\* attempts a selection completes it (it goes on to forward the request or
\* to answer 502), and the consumer waiting for the lock gets it and leaves
\* its critical section.
LockReleased ==
    /\ \A p \in Handlers :
          (hpc[p] = "lock") ~> (hpc[p] \in {"forward", "badgateway"})
    /\ (epc \in {"t_lock", "a_lock", "r_lock", "c_rlock"})
          ~> (epc \in {"inspect", "open", "decode"})

\* The same but for a handler the end of the process overtakes: it completes
\* the selection unless the process has ended meanwhile.
LockReleasedWhileRunning ==
    /\ \A p \in Handlers :
          (hpc[p] = "lock")
              ~> (hpc[p] \in {"forward", "badgateway"} \/ epc = "crashed")
    /\ (epc \in {"t_lock", "a_lock", "r_lock", "c_rlock"})
          ~> (epc \in {"inspect", "open", "decode"})

====
